---- MODULE Spec2Model ----
(***************************************************************************)
(* Model of diar-service/app.py: the speaker-diarization HTTP service.     *)
(*                                                                         *)
(* State: the process-wide pipeline handle, the temporary-file area, the   *)
(* single-threaded event loop (which request is running on it) and, per    *)
(* request, the locals of process_audio and the position in its body.      *)
(*                                                                         *)
(* Strings that the code inspects (declared media type, filename) are      *)
(* sequences of one-character strings, so that startswith, splitext and    *)
(* lower are computed as the code computes them.  Times are integers       *)
(* (ticks); the code's float arithmetic on them is subtraction and max.    *)
(***************************************************************************)
EXTENDS Integers, Sequences, FiniteSets, TLC

VARIABLES
    pipeline,   \* app.py:51   the global model handle: None or a loaded pipeline
    lifespan,   \* whether the server runs the startup event ("on") or not ("off")
    startup,    \* "pending" | "complete" | "failed": progress of load_pipeline
    fs,         \* temporary-file area: existing path -> request that created it
    loop,       \* request whose handler holds the event loop, 0 when the loop is free
    req,        \* per request: inputs, locals of process_audio, position, response
    health      \* body of the last /health response, None before the first

vars == <<pipeline, lifespan, startup, fs, loop, req, health>>

\* Python's None where a string may stand: a sequence that is no string of the
\* model (its one element is not a character)
None == <<"None">>

----------------------------------------------------------------------------
(* Bounds of the model *)

NumReq == 2      \* concurrent /process requests
MaxTurns == 2    \* turns in one engine output
MaxTime == 2     \* largest start/end tick the engine emits

Requests == 1..NumReq
Speakers == {"SPEAKER_00", "SPEAKER_01"}

----------------------------------------------------------------------------
(* Strings as sequences of characters *)

UpperAlpha == <<"A","B","C","D","E","F","G","H","I","J","K","L","M",
                "N","O","P","Q","R","S","T","U","V","W","X","Y","Z">>
LowerAlpha == <<"a","b","c","d","e","f","g","h","i","j","k","l","m",
                "n","o","p","q","r","s","t","u","v","w","x","y","z">>

LowerCharIdentity(c) == c

LowerChar(c) ==
    IF \E i \in 1..Len(UpperAlpha) : UpperAlpha[i] = c
    THEN LowerAlpha[CHOOSE i \in 1..Len(UpperAlpha) : UpperAlpha[i] = c]
    ELSE c

\* str.lower()
lower(s) == [i \in 1..Len(s) |-> LowerChar(s[i])]

\* str.startswith(prefix)
startswith(s, prefix) ==
    /\ Len(s) >= Len(prefix)
    /\ SubSeq(s, 1, Len(prefix)) = prefix

\* str.rfind(ch) for a single character, 1-based; 0 when ch does not occur
rfind(s, ch) ==
    IF \E i \in 1..Len(s) : s[i] = ch
    THEN CHOOSE i \in 1..Len(s) : s[i] = ch /\ \A j \in (i+1)..Len(s) : s[j] # ch
    ELSE 0

\* os.path.splitext(p)[1]: the text from the last dot of the last path
\* component on, unless that component has only leading dots before it
splitext_ext(p) ==
    LET sepIndex == rfind(p, "/")
        dotIndex == rfind(p, ".")
    IN  IF /\ dotIndex > sepIndex
           /\ \E k \in (sepIndex + 1)..(dotIndex - 1) : p[k] # "."
        THEN SubSeq(p, dotIndex, Len(p))
        ELSE <<>>

----------------------------------------------------------------------------
(* Inputs of a request *)

AudioPrefix == <<"a","u","d","i","o","/">>
OctetStream == <<"a","p","p","l","i","c","a","t","i","o","n","/",
                 "o","c","t","e","t","-","s","t","r","e","a","m">>
AudioWav    == <<"a","u","d","i","o","/","w","a","v">>
AudioMpeg   == <<"a","u","d","i","o","/","m","p","e","g">>
AudioUpper  == <<"A","u","d","i","o","/","w","a","v">>
AudioNoSub  == <<"a","u","d","i","o">>
TextPlain   == <<"t","e","x","t","/","p","l","a","i","n">>
VideoMp4    == <<"v","i","d","e","o","/","m","p","4">>
EmptyStr    == <<>>
Unknown     == <<"u","n","k","n","o","w","n">>

\* declared media types of an upload (None: the part carries no Content-Type)
ContentTypes ==
    {None, OctetStream, AudioWav, AudioMpeg, AudioPrefix, AudioUpper, AudioNoSub,
     TextPlain, VideoMp4, EmptyStr}

SpeechWav  == <<"s","p","e","e","c","h",".","w","a","v">>
VideoMP4   == <<"v","i","d","e","o",".","M","P","4">>
NotesTxt   == <<"n","o","t","e","s",".","t","x","t">>
NoExt      == <<"a","u","d","i","o">>
DotWav     == <<".","w","a","v">>
TrailDot   == <<"a",".","w","a","v",".">>
TwoDots    == <<"a",".","t","x","t",".","O","p","u","s">>
DirDot     == <<"d",".","m","p","3","/","c","l","i","p">>
ClipM4v    == <<"c","l","i","p",".","m","4","v">>
ClipFlacX  == <<"c",".","f","l","a","c","x">>

\* filenames of an upload (None: the part carries no filename)
Filenames ==
    {None, EmptyStr, SpeechWav, VideoMP4, NotesTxt, NoExt, DotWav, TrailDot,
     TwoDots, DirDot, ClipM4v, ClipFlacX}

\* the inputs used when several requests run concurrently
FewContentTypes == {AudioWav, TextPlain}
FewFilenames == {NotesTxt}

----------------------------------------------------------------------------
(* The validation rule of process_audio *)

audio_extensions ==
    { <<".","w","a","v">>, <<".","m","p","3">>, <<".","m","4","a">>,
      <<".","f","l","a","c">>, <<".","o","g","g">>, <<".","a","a","c">>,
      <<".","w","m","a">>, <<".","o","p","u","s">>, <<".","m","p","4">>,
      <<".","m","4","v">> }

\* content_type and content_type.startswith('audio/')
is_audio_content_type(content_type) ==
    /\ content_type # None
    /\ content_type # EmptyStr
    /\ startswith(content_type, AudioPrefix)

\* os.path.splitext(audio.filename or "")[1].lower()
file_ext(filename) ==
    lower(splitext_ext(IF filename = None THEN EmptyStr ELSE filename))

NoError == [kind |-> "None"]

Rejected(content_type) ==
    [kind |-> "HTTPException", status_code |-> 400,
     detail |-> [text |-> "Invalid file type", type |-> content_type,
                 supported |-> {}]]

ValidationErrorExtensionFirst(content_type, filename) ==
    IF file_ext(filename) \in audio_extensions \/ is_audio_content_type(content_type)
    THEN NoError
    ELSE Rejected(IF content_type = None THEN Unknown ELSE content_type)

\* the HTTPException that validation raises, NoError when the upload passes
ValidationError(content_type, filename) ==
    IF is_audio_content_type(content_type) THEN NoError
    ELSE IF content_type \in {None, OctetStream}
         THEN IF file_ext(filename) \notin audio_extensions
              THEN [kind |-> "HTTPException", status_code |-> 400,
                    detail |-> [text |-> "Invalid file type",
                                type |-> IF content_type = None
                                         THEN Unknown ELSE content_type,
                                supported |-> audio_extensions]]
              ELSE NoError
         ELSE [kind |-> "HTTPException", status_code |-> 400,
               detail |-> [text |-> "Invalid file type",
                           type |-> content_type,
                           supported |-> {}]]

\* os.path.splitext(audio.filename or "audio")[1] or ".wav"
suffix(filename) ==
    LET ext == splitext_ext(IF filename \in {None, EmptyStr} THEN NoExt ELSE filename)
    IN  IF ext = <<>> THEN <<".","w","a","v">> ELSE ext

----------------------------------------------------------------------------
(* The engine (pyannote pipeline) seen from process_audio *)

\* one raw speaker turn: (turn.start, turn.end, speaker)
Turns == [start : 0..MaxTime, end : 0..MaxTime, speaker : Speakers]

TurnSeqs == UNION {[1..n -> Turns] : n \in 0..MaxTurns}

EngineMessages == {"unsupported codec", "out of memory"}

\* what the call pipeline(temp_file, ...) can do: raise, return an object that
\* has no speaker_diarization attribute, or return an output with its turns
Raises(m) == [kind |-> "raise", message |-> m, turns |-> <<>>]
Annotation == [kind |-> "annotation", message |-> "", turns |-> <<>>]
Output(ts) == [kind |-> "output", message |-> "", turns |-> ts]
NoOutcome == [kind |-> "None", message |-> "", turns |-> <<>>]

EngineOutcomes ==
    {Raises(m) : m \in EngineMessages} \cup {Annotation}
        \cup {Output(ts) : ts \in TurnSeqs}

FewTurnSeqs ==
    { <<>>,
      <<[start |-> 0, end |-> 2, speaker |-> "SPEAKER_00"],
        [start |-> 1, end |-> 2, speaker |-> "SPEAKER_01"]>> }

FewEngineOutcomes ==
    {Raises("unsupported codec"), Annotation}
        \cup {Output(ts) : ts \in FewTurnSeqs}

----------------------------------------------------------------------------
(* The result normalizer: the loop of process_audio over the turns *)

max_keeping_first(a, b) == a

\* Python's max(a, b)
max(a, b) == IF b > a THEN b ELSE a

total_duration_sum(total_duration, turn) == total_duration + (turn.end - turn.start)

\* total_duration = max(total_duration, end)
total_duration_step(total_duration, turn) == max(total_duration, turn.end)

segment_start_minus_end(turn) ==
    [speaker |-> turn.speaker, start |-> turn.start, end |-> turn.end,
     duration |-> turn.start - turn.end]

\* the dict appended to segments for one turn
segment(turn) ==
    [speaker |-> turn.speaker, start |-> turn.start, end |-> turn.end,
     duration |-> turn.end - turn.start]

RECURSIVE extract(_, _, _, _)
\* for turn, speaker in diarization.speaker_diarization: ...
extract(turns, segments, speakers, total_duration) ==
    IF turns = <<>>
    THEN [segments |-> segments, speakers |-> speakers,
          total_duration |-> total_duration]
    ELSE extract(Tail(turns),
                 Append(segments, segment(Head(turns))),
                 speakers \cup {Head(turns).speaker},
                 total_duration_step(total_duration, Head(turns)))

\* DiarizationResponse(success=True, ...) built from the engine's turns
DiarizationResponse(turns) ==
    LET e == extract(turns, <<>>, {}, 0)
    IN  [success |-> TRUE,
         segments |-> e.segments,
         total_speakers |-> Cardinality(e.speakers),
         total_duration |-> e.total_duration,
         message |-> [text |-> "Successfully processed segments",
                      count |-> Len(e.segments)]]

----------------------------------------------------------------------------
(* Exceptions and responses *)

\* raise HTTPException(status_code=503, detail="Pipeline not loaded. ...")
PipelineNotLoaded ==
    [kind |-> "HTTPException", status_code |-> 503,
     detail |-> [text |-> "Pipeline not loaded. Please check server logs."]]

ProcessingErrorWithoutMessage(message) ==
    [kind |-> "HTTPException", status_code |-> 500,
     detail |-> [text |-> "Error processing audio", message |-> "internal error"]]

UncaughtError(message) == [kind |-> "Exception", message |-> message]

\* except Exception as e: raise HTTPException(status_code=500, detail=f"...{str(e)}")
ProcessingError(message) ==
    [kind |-> "HTTPException", status_code |-> 500,
     detail |-> [text |-> "Error processing audio", message |-> message]]

Returns(value) == [kind |-> "return", value |-> value]

\* the body global_exception_handler answers with (status 500)
global_exception_handler(exc) ==
    [success |-> FALSE, error |-> "Internal server error", message |-> exc.message]

NoResponse == [status |-> 0]

\* what the framework sends for the way the handler ended: the returned model
\* with 200, an HTTPException as {"detail": ...} with its status code, any
\* other exception through global_exception_handler
ResponseOf(result) ==
    CASE result.kind = "return" ->
            [status |-> 200, body |-> result.value]
      [] result.kind = "HTTPException" ->
            [status |-> result.status_code, body |-> [detail |-> result.detail]]
      [] OTHER ->
            [status |-> 500, body |-> global_exception_handler(result)]

----------------------------------------------------------------------------
(* The temporary-file area *)

TempNames == {"tmpa", "tmpb"}

NoPath == [name |-> "", suffix |-> <<>>]

Exists(path) == path \in DOMAIN fs

FilesOf(r) == {p \in DOMAIN fs : fs[p] = r}

UnusedUnchecked(path) == TRUE

\* NamedTemporaryFile creates its file exclusively: under a name no existing
\* file has
Unused(path) == ~Exists(path)

----------------------------------------------------------------------------
(* State *)

\* Python's None where a number may stand (parameter values are >= 0)
NoValue == -1

\* the developer tunables, in hundredths
CLUSTERING_THRESHOLD == 80
SEG_MIN_DURATION_ON == 0
SEG_MIN_DURATION_OFF == 0
SEG_THRESHOLD == NoValue
SEG_ONSET == 10
SEG_OFFSET == 10

\* the parameter values a pretrained pipeline comes with, in hundredths
EngineDefaults ==
    [clustering |-> [threshold |-> 71, min_cluster_size |-> 12],
     segmentation |-> [min_duration_on |-> 5, min_duration_off |-> 7,
                       threshold |-> 50, onset |-> 60, offset |-> 40]]

Restrict(f, keys) == [k \in keys |-> f[k]]

\* the sections an engine's parameter schema may have: any of the known keys
ClusteringDicts ==
    {Restrict(EngineDefaults.clustering, ks) :
        ks \in SUBSET (DOMAIN EngineDefaults.clustering)}
SegmentationDicts ==
    {Restrict(EngineDefaults.segmentation, ks) :
        ks \in SUBSET (DOMAIN EngineDefaults.segmentation)}

\* what pipeline.parameters(instantiated=True) may return: each section is a
\* dict or is absent
ParameterSets ==
    [clustering : ClusteringDicts, segmentation : SegmentationDicts]
        \cup [clustering : ClusteringDicts]
        \cup [segmentation : SegmentationDicts]
        \cup {[s \in {} |-> 0]}

\* any_tunable
any_tunable ==
    \/ CLUSTERING_THRESHOLD # NoValue
    \/ SEG_MIN_DURATION_ON # NoValue
    \/ SEG_MIN_DURATION_OFF # NoValue
    \/ SEG_THRESHOLD # NoValue
    \/ SEG_ONSET # NoValue
    \/ SEG_OFFSET # NoValue

merge_clustering_adding_key(hparams) ==
    IF CLUSTERING_THRESHOLD # NoValue /\ "clustering" \in DOMAIN hparams
    THEN [hparams EXCEPT !.clustering =
             [k \in DOMAIN @ \cup {"threshold"} |->
                 IF k = "threshold" THEN CLUSTERING_THRESHOLD ELSE @[k]]]
    ELSE hparams

\* if CLUSTERING_THRESHOLD is not None and "clustering" in hparams and
\* "threshold" in hparams["clustering"]: hparams["clustering"]["threshold"] = ...
merge_clustering(hparams) ==
    IF /\ CLUSTERING_THRESHOLD # NoValue
       /\ "clustering" \in DOMAIN hparams
       /\ "threshold" \in DOMAIN hparams.clustering
    THEN [hparams EXCEPT !.clustering.threshold = CLUSTERING_THRESHOLD]
    ELSE hparams

\* the (const, key) pairs of the segmentation loop, in its order
SegTunables ==
    << [const |-> SEG_MIN_DURATION_ON, key |-> "min_duration_on"],
       [const |-> SEG_MIN_DURATION_OFF, key |-> "min_duration_off"],
       [const |-> SEG_THRESHOLD, key |-> "threshold"],
       [const |-> SEG_ONSET, key |-> "onset"],
       [const |-> SEG_OFFSET, key |-> "offset"] >>

RECURSIVE merge_segmentation(_, _)
\* for const, key in [...]: if const is not None and key in seg: seg[key] = const
merge_segmentation(seg, pairs) ==
    IF pairs = <<>> THEN seg
    ELSE merge_segmentation(
            IF Head(pairs).const # NoValue /\ Head(pairs).key \in DOMAIN seg
            THEN [seg EXCEPT ![Head(pairs).key] = Head(pairs).const]
            ELSE seg,
            Tail(pairs))

\* hparams after the overrides: the argument of pipeline.instantiate
merged_parameters(hparams) ==
    LET h == merge_clustering(hparams)
    IN  IF "segmentation" \in DOMAIN h
        THEN [h EXCEPT !.segmentation = merge_segmentation(@, SegTunables)]
        ELSE h

\* the global pipeline: None, or the pipeline object with the parameter set it
\* came with and the one it is instantiated with
NoPipeline == [loaded |-> FALSE]

\* Pipeline.from_pretrained(...)
Pretrained(params) ==
    [loaded |-> TRUE, pretrained |-> params, parameters |-> params,
     instantiate_calls |-> 0]

\* pipeline.instantiate(hparams)
Instantiated(p, hparams) ==
    [p EXCEPT !.parameters = hparams, !.instantiate_calls = @ + 1]

\* the pipeline of a service whose startup completed on the default schema
LoadedPipeline == Instantiated(Pretrained(EngineDefaults), merged_parameters(EngineDefaults))

NoHealth == [status |-> "None"]

\* a request that has not arrived: the locals of process_audio before the call
NewRequest ==
    [pc |-> "idle",
     content_type |-> None,         \* audio.content_type
     filename |-> None,             \* audio.filename
     temp_file |-> NoPath,          \* temp_file (None until the file is created)
     content_read |-> FALSE,        \* audio.read() has returned
     written |-> FALSE,             \* tmp_file.write(content) has returned
     closed |-> FALSE,              \* the with block has closed tmp_file
     engine_path |-> NoPath,        \* the path pipeline(...) was called with
     diarization |-> NoOutcome,     \* what pipeline(...) did
     result |-> NoError,            \* how the handler ends: return or exception
     response |-> NoResponse,       \* the response sent
     created |-> 0,                 \* temporary files created
     remove_attempts |-> 0,         \* calls of os.remove
     removed |-> 0,                 \* calls of os.remove that removed the file
     engine_calls |-> 0,            \* calls of pipeline(...)
     responses |-> 0]               \* responses sent

\* requests are served when the server runs without startup events, or once
\* the startup event has completed; a failed startup ends the process
Serving ==
    \/ lifespan = "off" /\ startup = "pending"
    \/ startup = "complete"

Init ==
    /\ pipeline = NoPipeline
    /\ lifespan \in {"on", "off"}
    /\ startup = "pending"
    /\ fs = [p \in {} |-> 0]
    /\ loop = 0
    /\ req = [r \in Requests |-> NewRequest]
    /\ health = NoHealth

----------------------------------------------------------------------------
(* Startup *)

\* load_pipeline: Pipeline.from_pretrained assigns the global, then the
\* tunables are merged into the pipeline's parameters and pipeline.instantiate
\* is called with them; either call may raise, and the handler logs and
\* re-raises without touching the global
load_pipeline(schemas) ==
    /\ lifespan = "on"
    /\ startup = "pending"
    /\ \/ pipeline' = NoPipeline /\ startup' = "failed"
       \/ \E hparams \in schemas :
             \/ /\ any_tunable
                /\ pipeline' = Pretrained(hparams)
                /\ startup' = "failed"
             \/ /\ pipeline' = IF any_tunable
                               THEN Instantiated(Pretrained(hparams),
                                                 merged_parameters(hparams))
                               ELSE Pretrained(hparams)
                /\ startup' = "complete"
    /\ UNCHANGED <<lifespan, fs, loop, req, health>>

----------------------------------------------------------------------------
(* GET /health *)

health_check ==
    /\ Serving
    /\ loop = 0
    /\ health' = [status |-> "healthy", service |-> "pyannote-audio",
                  pipeline_loaded |-> (pipeline # NoPipeline)]
    /\ UNCHANGED <<pipeline, lifespan, startup, fs, loop, req>>

----------------------------------------------------------------------------
(* POST /process: process_audio, one action per stage.  The handler is a   *)
(* coroutine: it holds the event loop from its start to the await of       *)
(* audio.read(), and from the return of that await to its end.             *)

Set(r, changes) == [req EXCEPT ![r] = changes @@ req[r]]

\* a request with an upload reaches the handler
Receive(r, content_types, filenames) ==
    /\ Serving
    /\ req[r].pc = "idle"
    /\ \E ct \in content_types, fn \in filenames :
          req' = Set(r, [pc |-> "received", content_type |-> ct, filename |-> fn])
    /\ UNCHANGED <<pipeline, lifespan, startup, fs, loop, health>>

pipeline_check_after_validation(r) ==
    LET e == ValidationError(req[r].content_type, req[r].filename)
    IN  IF e.kind # "None" THEN e
        ELSE IF pipeline = NoPipeline THEN PipelineNotLoaded ELSE NoError

\* if pipeline is None: raise HTTPException(503), the first statement of the body
pipeline_check(r) ==
    IF pipeline = NoPipeline THEN PipelineNotLoaded ELSE NoError

\* the handler starts: the check of the model handle
CheckPipeline(r) ==
    /\ req[r].pc = "received"
    /\ loop = 0
    /\ loop' = r
    /\ LET e == pipeline_check(r)
       IN  IF e.kind = "None"
           THEN req' = Set(r, [pc |-> "validating"])
           ELSE req' = Set(r, [pc |-> "responding", result |-> e])
    /\ UNCHANGED <<pipeline, lifespan, startup, fs, health>>

ValidateWithoutRaise(r) ==
    /\ req[r].pc = "validating"
    /\ loop = r
    /\ req' = Set(r, [pc |-> "staging"])
    /\ UNCHANGED <<pipeline, lifespan, startup, fs, loop, health>>

\* the validation of the declared type and the extension
Validate(r) ==
    /\ req[r].pc = "validating"
    /\ loop = r
    /\ LET e == ValidationError(req[r].content_type, req[r].filename)
       IN  IF e.kind = "None"
           THEN req' = Set(r, [pc |-> "staging"])
           ELSE req' = Set(r, [pc |-> "responding", result |-> e])
    /\ UNCHANGED <<pipeline, lifespan, startup, fs, loop, health>>

\* tempfile.NamedTemporaryFile(delete=False, suffix=suffix); temp_file = its
\* name; then the coroutine awaits audio.read()
Stage(r) ==
    /\ req[r].pc = "staging"
    /\ loop = r
    /\ \/ /\ req' = Set(r, [pc |-> "cleanup",
                            result |-> ProcessingError("cannot create temporary file")])
          /\ UNCHANGED <<fs, loop>>
       \/ \E n \in TempNames :
            LET path == [name |-> n, suffix |-> suffix(req[r].filename)]
            IN  /\ Unused(path)
                /\ fs' = (path :> r) @@ fs
                /\ req' = Set(r, [pc |-> "reading", temp_file |-> path,
                                  created |-> req[r].created + 1])
                /\ loop' = 0
    /\ UNCHANGED <<pipeline, lifespan, startup, health>>

\* content = await audio.read(); tmp_file.write(content); the with block closes
\* the file on either exit
ReadWriteUnclosed(r) ==
    /\ req[r].pc = "reading"
    /\ loop = 0
    /\ loop' = r
    /\ \/ req' = Set(r, [pc |-> "cleanup", closed |-> TRUE,
                         result |-> ProcessingError("cannot read upload")])
       \/ req' = Set(r, [pc |-> "cleanup", content_read |-> TRUE, closed |-> TRUE,
                         result |-> ProcessingError("cannot write temporary file")])
       \/ req' = Set(r, [pc |-> "invoking", content_read |-> TRUE, written |-> TRUE])
    /\ UNCHANGED <<pipeline, lifespan, startup, fs, health>>

ReadWrite(r) ==
    /\ req[r].pc = "reading"
    /\ loop = 0
    /\ loop' = r
    /\ \/ req' = Set(r, [pc |-> "cleanup", closed |-> TRUE,
                         result |-> ProcessingError("cannot read upload")])
       \/ req' = Set(r, [pc |-> "cleanup", content_read |-> TRUE, closed |-> TRUE,
                         result |-> ProcessingError("cannot write temporary file")])
       \/ req' = Set(r, [pc |-> "invoking", content_read |-> TRUE, written |-> TRUE,
                         closed |-> TRUE])
    /\ UNCHANGED <<pipeline, lifespan, startup, fs, health>>

EnterEngineInThread(r) ==
    /\ req[r].pc = "invoking"
    /\ loop = r
    /\ loop' = 0
    /\ req' = Set(r, [pc |-> "in_engine",
                      engine_path |-> req[r].temp_file,
                      engine_calls |-> req[r].engine_calls + 1])
    /\ UNCHANGED <<pipeline, lifespan, startup, fs, health>>

\* pipeline(temp_file, num_speakers=2, min_speakers=2, max_speakers=2) is
\* called: a plain call inside the coroutine, which keeps the event loop
EnterEngine(r) ==
    /\ req[r].pc = "invoking"
    /\ loop = r
    /\ req' = Set(r, [pc |-> "in_engine",
                      engine_path |-> req[r].temp_file,
                      engine_calls |-> req[r].engine_calls + 1])
    /\ UNCHANGED <<pipeline, lifespan, startup, fs, loop, health>>

\* diarization = pipeline(...): the call returns or raises
Invoke(r, outcomes) ==
    /\ req[r].pc = "in_engine"
    /\ loop = r
    /\ \E o \in outcomes :
          req' = Set(r, [pc |-> IF o.kind = "raise" THEN "cleanup" ELSE "normalizing",
                         diarization |-> o,
                         result |-> IF o.kind = "raise"
                                    THEN ProcessingError(o.message)
                                    ELSE req[r].result])
    /\ UNCHANGED <<pipeline, lifespan, startup, fs, loop, health>>

normalize_rejecting_empty(diarization) ==
    IF diarization.kind = "annotation" \/ diarization.turns = <<>>
    THEN ProcessingError("no attribute speaker_diarization")
    ELSE Returns(DiarizationResponse(diarization.turns))

\* lines 186-213 on what the engine returned: reading speaker_diarization from
\* an object without it raises, which the except clause turns into a 500
normalize(diarization) ==
    IF diarization.kind = "annotation"
    THEN ProcessingError("no attribute speaker_diarization")
    ELSE Returns(DiarizationResponse(diarization.turns))

\* the loop over diarization.speaker_diarization and the DiarizationResponse
Normalize(r) ==
    /\ req[r].pc = "normalizing"
    /\ loop = r
    /\ req' = Set(r, [pc |-> "cleanup", result |-> normalize(req[r].diarization)])
    /\ UNCHANGED <<pipeline, lifespan, startup, fs, loop, health>>

must_remove_on_success(r) ==
    /\ req[r].result.kind = "return"
    /\ req[r].temp_file # NoPath
    /\ Exists(req[r].temp_file)

\* if temp_file and os.path.exists(temp_file)
must_remove(r) ==
    /\ req[r].temp_file # NoPath
    /\ Exists(req[r].temp_file)

CleanupEscalating(r) ==
    /\ req[r].pc = "cleanup"
    /\ loop = r
    /\ IF must_remove(r)
       THEN \/ /\ fs' = [p \in DOMAIN fs \ {req[r].temp_file} |-> fs[p]]
               /\ req' = Set(r, [pc |-> "responding",
                                 remove_attempts |-> req[r].remove_attempts + 1,
                                 removed |-> req[r].removed + 1])
            \/ /\ fs' = fs
               /\ req' = Set(r, [pc |-> "responding",
                                 remove_attempts |-> req[r].remove_attempts + 1,
                                 result |-> ProcessingError("cannot remove temporary file")])
       ELSE /\ fs' = fs
            /\ req' = Set(r, [pc |-> "responding"])
    /\ UNCHANGED <<pipeline, lifespan, startup, loop, health>>

\* finally: if temp_file and os.path.exists(temp_file): try os.remove(temp_file)
\* except Exception: logger.warning(...)
Cleanup(r) ==
    /\ req[r].pc = "cleanup"
    /\ loop = r
    /\ IF must_remove(r)
       THEN \/ /\ fs' = [p \in DOMAIN fs \ {req[r].temp_file} |-> fs[p]]
               /\ req' = Set(r, [pc |-> "responding",
                                 remove_attempts |-> req[r].remove_attempts + 1,
                                 removed |-> req[r].removed + 1])
            \/ /\ fs' = fs
               /\ req' = Set(r, [pc |-> "responding",
                                 remove_attempts |-> req[r].remove_attempts + 1])
       ELSE /\ fs' = fs
            /\ req' = Set(r, [pc |-> "responding"])
    /\ UNCHANGED <<pipeline, lifespan, startup, loop, health>>

\* the framework turns the handler's return value or exception into the response
Respond(r) ==
    /\ req[r].pc = "responding"
    /\ loop = r
    /\ loop' = 0
    /\ req' = Set(r, [pc |-> "done", response |-> ResponseOf(req[r].result),
                      responses |-> req[r].responses + 1])
    /\ UNCHANGED <<pipeline, lifespan, startup, fs, health>>

\* the steps of request r once it has arrived
Handle(r, outcomes) ==
    \/ CheckPipeline(r)
    \/ Validate(r)
    \/ Stage(r)
    \/ ReadWrite(r)
    \/ EnterEngine(r)
    \/ Invoke(r, outcomes)
    \/ Normalize(r)
    \/ Cleanup(r)
    \/ Respond(r)

----------------------------------------------------------------------------
(* Specifications *)

\* concurrent requests
Next ==
    \/ load_pipeline({EngineDefaults})
    \/ health_check
    \/ \E r \in Requests :
          \/ Receive(r, FewContentTypes, FewFilenames)
          \/ Handle(r, FewEngineOutcomes)

Spec == Init /\ [][Next]_vars

\* the event loop runs every ready coroutine and the engine call returns or raises
FairSpec == Spec /\ \A r \in Requests : WF_vars(Handle(r, FewEngineOutcomes))

\* one request, every declared type and filename
NextValidate ==
    \/ load_pipeline({EngineDefaults})
    \/ health_check
    \/ Receive(1, ContentTypes, Filenames)
    \/ Handle(1, FewEngineOutcomes)

SpecValidate == Init /\ [][NextValidate]_vars

\* one request with a valid upload, every engine output
NextNormalize ==
    \/ load_pipeline({EngineDefaults})
    \/ health_check
    \/ Receive(1, {AudioWav}, {SpeechWav})
    \/ Handle(1, EngineOutcomes)

SpecNormalize == Init /\ [][NextNormalize]_vars

\* one request, every parameter schema of the engine at startup
NextStartup ==
    \/ load_pipeline(ParameterSets)
    \/ health_check
    \/ Receive(1, FewContentTypes, FewFilenames)
    \/ Handle(1, FewEngineOutcomes)

SpecStartup == Init /\ [][NextStartup]_vars

----------------------------------------------------------------------------
(* Vocabulary of the properties *)

Answered(r) == req[r].pc = "done"
Status(r) == req[r].response.status
Body(r) == req[r].response.body
Loaded == pipeline # NoPipeline

\* staging began and the handler has left its finally block
PastCleanup(r) == req[r].pc \in {"responding", "done"} /\ req[r].created > 0

----------------------------------------------------------------------------
(* C1 *)

\* C1 as stated: every staged temporary file of a request is removed exactly
\* once before the response is produced, and no staged file of a completed
\* request exists.
C1_Original ==
    \A r \in Requests :
        PastCleanup(r) => req[r].removed = 1 /\ FilesOf(r) = {}

\* C1 amended: on every exit path after staging began the removal of the staged
\* file is attempted exactly once before the response is produced, at most one
\* file is staged per request, and no staged file of the request is left
\* unless that one removal attempt failed.
C1_RemovalAttemptedOnce ==
    \A r \in Requests :
        /\ req[r].created <= 1
        /\ Cardinality(FilesOf(r)) <= req[r].created
        /\ req[r].pc \notin {"responding", "done"} => req[r].remove_attempts = 0
        /\ PastCleanup(r) =>
              /\ req[r].remove_attempts = 1
              /\ req[r].removed <= 1
              /\ (req[r].removed = 1) <=> (FilesOf(r) = {})

\* an engine failure after staging, answered with the staged file gone
C1_Witness ==
    \E r \in Requests :
        /\ Answered(r)
        /\ req[r].diarization.kind = "raise"
        /\ req[r].created = 1
        /\ req[r].removed = 1
        /\ FilesOf(r) = {}

----------------------------------------------------------------------------
(* C2 *)

\* C2: while the model handle is unset every /process request is answered 503
\* whatever its declared type and filename, creates no temporary file and does
\* not invoke the engine; /health reports pipeline_loaded = FALSE while the
\* handle is unset and TRUE when it is set.
C2_UnsetHandleAnswers503 ==
    /\ ~Loaded =>
          \A r \in Requests :
              /\ req[r].pc \in {"idle", "received", "responding", "done"}
              /\ req[r].pc = "responding" => req[r].result = PipelineNotLoaded
              /\ Answered(r) => Status(r) = 503
              /\ req[r].created = 0
              /\ ~req[r].content_read
              /\ req[r].engine_calls = 0
              /\ fs = [p \in {} |-> 0]
    /\ health.status = "healthy" => (health.pipeline_loaded <=> Loaded)

\* an upload that validation would reject is answered 503, and /health was asked
C2_Witness ==
    /\ ~Loaded
    /\ health.status = "healthy"
    /\ \E r \in Requests :
          /\ Answered(r)
          /\ Status(r) = 503
          /\ req[r].content_type = TextPlain
          /\ req[r].filename = NotesTxt

----------------------------------------------------------------------------
(* C3 *)

\* the declared type is present and is not the generic binary type
DeclaredSpecific(r) == req[r].content_type \notin {None, OctetStream}

\* the declared type starts with the six characters audio/
DeclaredAudio(r) ==
    LET ct == req[r].content_type
    IN  /\ Len(ct) >= 6
        /\ ct[1] = "a" /\ ct[2] = "u" /\ ct[3] = "d"
        /\ ct[4] = "i" /\ ct[5] = "o" /\ ct[6] = "/"

\* the request passed validation / was rejected by it
Accepted(r) ==
    req[r].pc \in {"staging", "reading", "invoking", "in_engine", "normalizing",
                  "cleanup"}
        \/ (req[r].pc \in {"responding", "done"} /\ req[r].result.kind # "HTTPException")
        \/ (req[r].pc \in {"responding", "done"} /\ req[r].result.kind = "HTTPException"
                /\ req[r].result.status_code = 500)
Rejected400(r) ==
    /\ req[r].pc \in {"responding", "done"}
    /\ req[r].result.kind = "HTTPException"
    /\ req[r].result.status_code = 400
Validated(r) == Accepted(r) \/ Rejected400(r)

\* C3: with a declared type that is present and not application/octet-stream
\* the decision depends on the type alone: accepted when it starts with
\* audio/, rejected with 400 otherwise, whatever the filename is.
C3_DeclaredTypeDecides ==
    \A r \in Requests :
        (DeclaredSpecific(r) /\ Validated(r)) =>
            /\ DeclaredAudio(r) => Accepted(r)
            /\ ~DeclaredAudio(r) => Rejected400(r)
            /\ Answered(r) /\ Rejected400(r) => Status(r) = 400

\* text/plain with speech.wav is rejected with 400
C3_Witness ==
    \E r \in Requests :
        /\ Answered(r)
        /\ req[r].content_type = TextPlain
        /\ req[r].filename = SpeechWav
        /\ Status(r) = 400

----------------------------------------------------------------------------
(* C4 *)

\* the extensions the claim lists
AllowList ==
    { <<"w","a","v">>, <<"m","p","3">>, <<"m","4","a">>, <<"f","l","a","c">>,
      <<"o","g","g">>, <<"a","a","c">>, <<"w","m","a">>, <<"o","p","u","s">>,
      <<"m","p","4">>, <<"m","4","v">> }

\* two characters equal up to the case of a letter
SameLetter(c, d) ==
    c = d \/ \E i \in 1..26 : {c, d} = {UpperAlpha[i], LowerAlpha[i]}

SameTextIgnoringCase(a, b) ==
    Len(a) = Len(b) /\ \A i \in 1..Len(a) : SameLetter(a[i], b[i])

\* x is the extension of filename f: what follows the last dot of the last
\* path component, when something other than dots precedes that dot
IsExtensionOf(x, f) ==
    \E k \in 1..Len(f) :
        /\ f[k] = "."
        /\ x = SubSeq(f, k + 1, Len(f))
        /\ \A j \in (k + 1)..Len(f) : f[j] \notin {".", "/"}
        /\ \E j \in 1..(k - 1) :
              /\ f[j] # "."
              /\ \A i \in j..k : f[i] # "/"

HasAllowedExtension(f) ==
    /\ f # None
    /\ \E e \in AllowList, k \in 1..Len(f) :
          /\ IsExtensionOf(SubSeq(f, k + 1, Len(f)), f)
          /\ SameTextIgnoringCase(SubSeq(f, k + 1, Len(f)), e)

\* C4: with a missing or application/octet-stream declared type the upload is
\* accepted exactly when the filename's extension, compared case-insensitively,
\* is in the allow-list; a missing filename or one without extension gets 400.
C4_ExtensionFallback ==
    \A r \in Requests :
        (~DeclaredSpecific(r) /\ Validated(r)) =>
            /\ Accepted(r) <=> HasAllowedExtension(req[r].filename)
            /\ Rejected400(r) <=> ~HasAllowedExtension(req[r].filename)
            /\ Answered(r) /\ Rejected400(r) => Status(r) = 400

\* video.MP4 without declared type is accepted
C4_Witness ==
    \E r \in Requests :
        /\ req[r].content_type = None
        /\ req[r].filename = VideoMP4
        /\ Answered(r)
        /\ Status(r) = 200

----------------------------------------------------------------------------
(* C5 *)

\* a body of the shape {success: false, error, message?}
IsErrorBody(body) ==
    /\ {"success", "error"} \subseteq DOMAIN body
    /\ DOMAIN body \subseteq {"success", "error", "message"}
    /\ body.success = FALSE

\* C5: every non-success response of /process (400, 503, 500) carries the
\* structured error body {success: false, error, message?}.
C5_StructuredErrorBody ==
    \A r \in Requests :
        (Answered(r) /\ Status(r) # 200) => IsErrorBody(Body(r))

----------------------------------------------------------------------------
(* C6 *)

\* the engine returned an output (not an exception, not a foreign object)
EngineReturned(r) ==
    req[r].pc \in {"cleanup", "responding", "done"} /\ req[r].diarization.kind = "output"

RawTurns(r) == req[r].diarization.turns

\* C6: zero turns from the engine give a success response with no segments,
\* total_speakers = 0 and total_duration = 0.
C6_ZeroTurnsIsSuccess ==
    \A r \in Requests :
        (Answered(r) /\ EngineReturned(r) /\ RawTurns(r) = <<>>) =>
            /\ Status(r) = 200
            /\ Body(r).success = TRUE
            /\ Body(r).segments = <<>>
            /\ Body(r).total_speakers = 0
            /\ Body(r).total_duration = 0

C6_Witness ==
    \E r \in Requests :
        /\ Answered(r)
        /\ req[r].engine_calls = 1
        /\ EngineReturned(r)
        /\ RawTurns(r) = <<>>
        /\ Status(r) = 200

----------------------------------------------------------------------------
(* C7 *)

\* C7: the success response has one segment per raw turn, in the engine's
\* order, each with the turn's speaker, start and end and duration = end -
\* start, and total_speakers is the number of distinct speaker labels.
C7_OneSegmentPerTurnInOrder ==
    \A r \in Requests :
        (Answered(r) /\ EngineReturned(r)) =>
            /\ Status(r) = 200
            /\ Len(Body(r).segments) = Len(RawTurns(r))
            /\ \A i \in 1..Len(RawTurns(r)) :
                  /\ Body(r).segments[i].speaker = RawTurns(r)[i].speaker
                  /\ Body(r).segments[i].start = RawTurns(r)[i].start
                  /\ Body(r).segments[i].end = RawTurns(r)[i].end
                  /\ Body(r).segments[i].duration + RawTurns(r)[i].start
                        = RawTurns(r)[i].end
            /\ Body(r).total_speakers
                  = Cardinality({RawTurns(r)[i].speaker : i \in 1..Len(RawTurns(r))})

\* two turns of one speaker that the engine emitted out of chronological order
C7_Witness ==
    \E r \in Requests :
        /\ Answered(r)
        /\ EngineReturned(r)
        /\ Len(RawTurns(r)) = 2
        /\ RawTurns(r)[1].start > RawTurns(r)[2].start
        /\ RawTurns(r)[1].speaker = RawTurns(r)[2].speaker
        /\ Body(r).segments[1].start > Body(r).segments[2].start
        /\ Body(r).total_speakers = 1

----------------------------------------------------------------------------
(* C8 *)

RECURSIVE SumOfDurations(_)
SumOfDurations(turns) ==
    IF turns = <<>> THEN 0
    ELSE (Head(turns).end - Head(turns).start) + SumOfDurations(Tail(turns))

\* C8: for a non-empty sequence of turns total_duration is the largest end
\* time of a turn, not the sum of the durations.
C8_TotalDurationIsMaxEnd ==
    \A r \in Requests :
        (Answered(r) /\ EngineReturned(r) /\ RawTurns(r) # <<>>) =>
            /\ \E i \in 1..Len(RawTurns(r)) :
                  Body(r).total_duration = RawTurns(r)[i].end
            /\ \A i \in 1..Len(RawTurns(r)) :
                  Body(r).total_duration >= RawTurns(r)[i].end

\* overlapping turns whose durations sum to more than the furthest end
C8_Witness ==
    \E r \in Requests :
        /\ Answered(r)
        /\ EngineReturned(r)
        /\ Len(RawTurns(r)) = 2
        /\ RawTurns(r)[1].end > RawTurns(r)[2].end
        /\ SumOfDurations(RawTurns(r)) > RawTurns(r)[1].end
        /\ Body(r).total_duration = RawTurns(r)[1].end

----------------------------------------------------------------------------
(* C9 *)

\* the upload does not pass the validation rule
FailsValidation(r) ==
    IF DeclaredSpecific(r) THEN ~DeclaredAudio(r)
    ELSE ~HasAllowedExtension(req[r].filename)

\* C9: an upload that fails validation ends at once with status 400: no
\* temporary file is created, the content is not read, the engine not invoked.
C9_RejectedBeforeStaging ==
    \A r \in Requests :
        (Loaded /\ req[r].pc \notin {"idle", "received", "validating"}
                /\ FailsValidation(r)) =>
            /\ req[r].pc \in {"responding", "done"}
            /\ req[r].result.kind = "HTTPException"
            /\ req[r].result.status_code = 400
            /\ Answered(r) => Status(r) = 400
            /\ req[r].created = 0
            /\ req[r].temp_file = NoPath
            /\ ~req[r].content_read
            /\ req[r].engine_calls = 0
            /\ FilesOf(r) = {}

\* notes.txt without declared type was answered 400
C9_Witness ==
    \E r \in Requests :
        /\ Answered(r)
        /\ req[r].content_type = None
        /\ req[r].filename = NotesTxt
        /\ Status(r) = 400
        /\ req[r].created = 0

----------------------------------------------------------------------------
(* C10 *)

\* C10: every /process request that reached the handler is eventually
\* answered, exactly once, with status 200, 400, 503 or 500; no failure
\* leaves the handler as anything but an HTTPException, and a failed request
\* does not keep a later one from being answered.
C10_EveryRequestAnswered ==
    /\ [](\A r \in Requests :
            /\ req[r].responses <= 1
            /\ req[r].result.kind # "Exception"
            /\ Answered(r) => req[r].responses = 1
                                /\ Status(r) \in {200, 400, 503, 500})
    /\ \A r \in Requests : (req[r].pc = "received") ~> Answered(r)

\* one request was answered 500 after the engine raised, and another one,
\* which was waiting for its upload meanwhile, has reached the engine call
C10_Witness ==
    \E r, q \in Requests :
        /\ r # q
        /\ Answered(r)
        /\ Status(r) = 500
        /\ req[r].diarization.kind = "raise"
        /\ req[q].pc = "invoking"

----------------------------------------------------------------------------
(* C11 *)

\* the overrides the source specifies: section, key, value
SpecifiedOverrides ==
    {o \in { <<"clustering", "threshold", CLUSTERING_THRESHOLD>>,
             <<"segmentation", "min_duration_on", SEG_MIN_DURATION_ON>>,
             <<"segmentation", "min_duration_off", SEG_MIN_DURATION_OFF>>,
             <<"segmentation", "threshold", SEG_THRESHOLD>>,
             <<"segmentation", "onset", SEG_ONSET>>,
             <<"segmentation", "offset", SEG_OFFSET>> } : o[3] # NoValue}

Overridden(section, key) == \E o \in SpecifiedOverrides : o[1] = section /\ o[2] = key

\* C11: the parameter set the pipeline is re-instantiated with is its current
\* set with exactly the specified overrides applied whose key exists in it; an
\* override whose key or section is absent adds no key, changes no other value
\* and does not make the initialization fail.
C11_OnlyExistingKeysOverridden ==
    startup = "complete" =>
        /\ pipeline.loaded
        /\ pipeline.instantiate_calls = 1
        /\ DOMAIN pipeline.parameters = DOMAIN pipeline.pretrained
        /\ \A section \in DOMAIN pipeline.pretrained :
              /\ DOMAIN pipeline.parameters[section] = DOMAIN pipeline.pretrained[section]
              /\ \A key \in DOMAIN pipeline.pretrained[section] :
                    /\ Overridden(section, key) =>
                          <<section, key, pipeline.parameters[section][key]>>
                              \in SpecifiedOverrides
                    /\ ~Overridden(section, key) =>
                          pipeline.parameters[section][key]
                              = pipeline.pretrained[section][key]

\* a schema without clustering section and without segmentation offset: the
\* onset override is applied, the unspecified threshold is kept, startup completes
C11_Witness ==
    /\ startup = "complete"
    /\ "clustering" \notin DOMAIN pipeline.pretrained
    /\ "segmentation" \in DOMAIN pipeline.pretrained
    /\ DOMAIN pipeline.pretrained.segmentation = {"onset", "threshold"}
    /\ pipeline.parameters.segmentation.onset = SEG_ONSET
    /\ pipeline.parameters.segmentation.threshold = 50

----------------------------------------------------------------------------
(* C12 *)

\* C12: after a failed initialization, in the pipeline load or in the
\* re-instantiation with the merged overrides, the model handle is unset and
\* no /process request reaches staging or the engine.
C12_FailedStartupLeavesHandleUnset ==
    startup = "failed" =>
        /\ pipeline = NoPipeline
        /\ \A r \in Requests : req[r].created = 0 /\ req[r].engine_calls = 0

----------------------------------------------------------------------------
(* C13 *)

\* the engine call of request r raised
EngineRaised(r) ==
    req[r].pc \in {"cleanup", "responding", "done"} /\ req[r].diarization.kind = "raise"

\* C13: when the engine raises, the request ends with status 500 and an error
\* text that carries the engine's message, and the engine is invoked at most
\* once per request.
C13_EngineErrorIs500WithMessage ==
    \A r \in Requests :
        /\ req[r].engine_calls <= 1
        /\ EngineRaised(r) =>
              /\ req[r].engine_calls = 1
              /\ req[r].result.kind = "HTTPException"
              /\ req[r].result.status_code = 500
              /\ req[r].result.detail.message = req[r].diarization.message
              /\ Answered(r) =>
                    /\ Status(r) = 500
                    /\ Body(r).detail.message = req[r].diarization.message

C13_Witness ==
    \E r \in Requests :
        /\ Answered(r)
        /\ EngineRaised(r)
        /\ req[r].diarization.message = "out of memory"
        /\ Status(r) = 500
        /\ req[r].engine_calls = 1

----------------------------------------------------------------------------
(* C14 *)

InEngine(r) == req[r].pc = "in_engine"

\* C14: the engine call is a suspension point of the event loop: while a
\* request is inside it, a /health request can be answered and another
\* /process request can read its upload.
C14_EngineCallYieldsLoop ==
    \A r \in Requests :
        InEngine(r) =>
            /\ ENABLED health_check
            /\ \A q \in Requests \ {r} :
                  req[q].pc = "reading" => ENABLED ReadWrite(q)

----------------------------------------------------------------------------
(* C15 *)

\* C15: in every interleaving at most one request is inside the engine call.
C15_OneEngineCallAtATime ==
    /\ Cardinality({r \in Requests : InEngine(r)}) <= 1
    /\ \A r \in Requests : InEngine(r) => loop = r

\* a request is inside the engine call while another has staged its upload
\* and waits for the loop
C15_Witness ==
    \E r, q \in Requests :
        /\ r # q
        /\ InEngine(r)
        /\ req[q].pc = "reading"
        /\ req[q].created = 1

----------------------------------------------------------------------------
(* C16 *)

\* request r has staged a file and has not yet left its finally block
Live(r) ==
    /\ req[r].created = 1
    /\ req[r].pc \in {"reading", "invoking", "in_engine", "normalizing", "cleanup"}

\* every live request holds an existing file that it created itself, two live
\* requests hold different paths, and the engine is called with the own path
OwnStagedFile ==
    /\ \A r \in Requests :
          /\ Live(r) => Exists(req[r].temp_file) /\ fs[req[r].temp_file] = r
          /\ req[r].engine_calls > 0 => req[r].engine_path = req[r].temp_file
    /\ \A r, q \in Requests :
          (r # q /\ Live(r) /\ Live(q)) => req[r].temp_file # req[q].temp_file

\* a step removes a file only as the cleanup of the request that created it,
\* and never hands an existing file to another request
OnlyOwnFileRemoved ==
    \A p \in DOMAIN fs :
        IF p \in DOMAIN fs'
        THEN fs'[p] = fs[p]
        ELSE /\ req[fs[p]].pc = "cleanup"
             /\ req'[fs[p]].pc = "responding"
             /\ req[fs[p]].temp_file = p

\* C16: in every interleaving each request writes, passes to the engine and
\* removes only its own staged file; no two live requests hold the same path
\* and no cleanup removes a file another request has staged.
C16_StagedFileExclusive == []OwnStagedFile /\ [][OnlyOwnFileRemoved]_vars

\* two requests with the same suffix have staged files and both await their upload
C16_Witness ==
    \E r, q \in Requests :
        /\ r # q
        /\ req[r].pc = "reading"
        /\ req[q].pc = "reading"
        /\ req[r].temp_file.suffix = req[q].temp_file.suffix
        /\ Exists(req[r].temp_file)
        /\ Exists(req[q].temp_file)

----------------------------------------------------------------------------
(* C17 *)

\* the one removal attempt of request r failed
RemovalFailed(r) == req[r].remove_attempts = 1 /\ req[r].removed = 0

\* the finally block leaves the way the handler ends as the try block set it
CleanupKeepsResult ==
    \A r \in Requests :
        (req[r].pc = "cleanup" /\ req'[r].pc # "cleanup") =>
            /\ req'[r].pc = "responding"
            /\ req'[r].result = req[r].result

\* with or without a failed removal an answered request has the response of
\* its stages: 200 with the normalized turns, or the 500 of the failing stage
ResponseIgnoresRemoval ==
    \A r \in Requests :
        (Answered(r) /\ req[r].created = 1) =>
            /\ req[r].remove_attempts = 1
            /\ EngineReturned(r) =>
                  /\ Status(r) = 200
                  /\ Body(r).success = TRUE
                  /\ Len(Body(r).segments) = Len(RawTurns(r))
            /\ ~EngineReturned(r) =>
                  /\ Status(r) = 500
                  /\ Body(r).detail.message =
                        IF ~req[r].content_read THEN "cannot read upload"
                        ELSE IF ~req[r].written THEN "cannot write temporary file"
                        ELSE IF req[r].diarization.kind = "raise"
                             THEN req[r].diarization.message
                             ELSE "no attribute speaker_diarization"

\* C17: a failure to remove the staged file is swallowed: the response is the
\* same whether the removal succeeds or fails; a removal failure neither turns
\* a success into an error nor replaces the original error.
C17_RemovalFailureSwallowed ==
    []ResponseIgnoresRemoval /\ [][CleanupKeepsResult]_vars

\* a success and an engine error, both answered after their removal failed
C17_Witness ==
    \E r, q \in Requests :
        /\ Answered(r) /\ RemovalFailed(r) /\ Status(r) = 200
        /\ Answered(q) /\ RemovalFailed(q) /\ Status(q) = 500
        /\ req[q].diarization.kind = "raise"

----------------------------------------------------------------------------
(* C18 *)

\* the position of a handler among its stages
StageRank(pc) ==
    CASE pc = "idle" -> 0
      [] pc = "received" -> 1
      [] pc = "validating" -> 2
      [] pc = "staging" -> 3
      [] pc = "reading" -> 4
      [] pc = "invoking" -> 5
      [] pc = "in_engine" -> 6
      [] pc = "normalizing" -> 7
      [] pc = "cleanup" -> 8
      [] pc = "responding" -> 9
      [] pc = "done" -> 10

\* a handler only moves forward through its stages
StagesMoveForward ==
    \A r \in Requests :
        req'[r].pc # req[r].pc => StageRank(req'[r].pc) > StageRank(req[r].pc)

\* the upload is on disk: read whole, written, and the file closed
UploadStaged(r) ==
    /\ req[r].created = 1
    /\ req[r].content_read
    /\ req[r].written
    /\ req[r].closed

StagesOrdered ==
    \A r \in Requests :
        \* stage only after validation passed
        /\ req[r].created > 0 =>
              ValidationError(req[r].content_type, req[r].filename) = NoError
        \* invoke only after the upload is written and the file closed
        /\ (req[r].engine_calls > 0 \/ req[r].pc \in {"invoking", "in_engine"}) =>
              UploadStaged(r)
        \* normalize only after the invocation returned
        /\ req[r].pc = "normalizing" =>
              /\ req[r].engine_calls = 1
              /\ req[r].diarization.kind \in {"output", "annotation"}
        /\ req[r].result.kind = "return" =>
              /\ req[r].engine_calls = 1
              /\ req[r].diarization.kind = "output"
        \* cleanup after normalization or after the failing stage
        /\ req[r].pc = "cleanup" => req[r].result # NoError
        /\ req[r].remove_attempts > 0 =>
              /\ req[r].pc \in {"responding", "done"}
              /\ req[r].result # NoError
        \* the response after cleanup
        /\ (req[r].responses > 0 /\ req[r].created > 0) => req[r].remove_attempts = 1

\* C18: within one request the stages run in the order validate, stage,
\* invoke, normalize, cleanup: the engine is invoked only after the whole
\* upload is written to the staged file and the file is closed, normalization
\* starts only after the invocation returned, and cleanup runs after
\* normalization (or the failing stage) and before the response.
C18_StagesInOrder == []StagesOrdered /\ [][StagesMoveForward]_vars

\* a request that went through every stage and was answered
C18_Witness ==
    \E r \in Requests :
        /\ Answered(r) /\ Status(r) = 200
        /\ UploadStaged(r)
        /\ req[r].engine_calls = 1
        /\ req[r].remove_attempts = 1
        /\ req[r].responses = 1

----------------------------------------------------------------------------
(* C19 *)

\* the engine returned a turn that ends before it starts
HasReversedTurn(r) ==
    \E i \in 1..Len(RawTurns(r)) : RawTurns(r)[i].end < RawTurns(r)[i].start

\* C19: a raw turn whose end is smaller than its start is rejected as a
\* normalization error: no success response contains a segment with a
\* negative duration.
C19_ReversedTurnRejected ==
    \A r \in Requests :
        (Answered(r) /\ EngineReturned(r)) =>
            /\ HasReversedTurn(r) => Status(r) = 500
            /\ Status(r) = 200 =>
                  \A i \in 1..Len(Body(r).segments) : Body(r).segments[i].duration >= 0

----------------------------------------------------------------------------
(* C20 *)

SuccessBodyConsistent(body) ==
    /\ body.total_speakers <= Len(body.segments)
    /\ body.total_speakers = 0 <=> body.segments = <<>>
    /\ body.total_duration >= 0
    /\ \A i \in 1..Len(body.segments) : body.total_duration >= body.segments[i].end

\* C20: in every success response total_speakers is at most the number of
\* segments, total_speakers is 0 exactly when there are no segments,
\* total_duration is not negative, and total_duration is at least the end of
\* every segment.
C20_SuccessResponseConsistent ==
    \A r \in Requests :
        (Answered(r) /\ Status(r) = 200) => SuccessBodyConsistent(Body(r))

\* a success response with two segments of one speaker, the longer one first
C20_Witness ==
    \E r \in Requests :
        /\ Answered(r) /\ Status(r) = 200
        /\ Len(Body(r).segments) = 2
        /\ Body(r).total_speakers = 1
        /\ Body(r).segments[1].end > Body(r).segments[2].end
        /\ Body(r).segments[1].end > 0

====
